---- MODULE Spec2Model ----
(***************************************************************************)
(* The websocket connection manager of components/server: the registry of  *)
(* live GitpodServerImpl instances, the connection-created/closed events,  *)
(* the per-user rate limiters and the onRequest pipeline of                *)
(* GitpodJsonRpcProxyFactory.                                              *)
(***************************************************************************)
EXTENDS Integers, Sequences, FiniteSets, TLC

(***************************************************************************)
(* Bounds of the model.                                                    *)
(***************************************************************************)
MaxConns == 2
MaxCloseSignals == 2
MaxListeners == 1
MaxSubs == 2
MaxDisposeCalls == 2

MaxInFlight == 2
MaxCalls == 6

Conns == 1..MaxConns
Listeners == 1..MaxListeners

\* expressReq.user is undefined on an unauthenticated request
NoUser == "undefined"
Users == {"alice", "bob"}

\* AnonymRateLimiter.user
Anonym == "(anonym)"

\* the operation names of the model: two entries of the classification table
\* and one name that is absent from it
Methods == {"getWorkspaces", "getToken", "bogusMethod"}

\* time steps (ms) by which the clock advances
TickSteps == {29500, 29800}

EVENT_CONNECTION_CREATED == "EVENT_CONNECTION_CREATED"
EVENT_CONNECTION_CLOSED == "EVENT_CONNECTION_CLOSED"
EventNames == {EVENT_CONNECTION_CREATED, EVENT_CONNECTION_CLOSED}

VARIABLES
    servers,        \* WebsocketConnectionManager.servers: sequence of handler uuids
    handlers,       \* per connection: the GitpodServerImpl built for it and its wiring
    events,         \* WebsocketConnectionManager.events: listeners per event name
    delivered,      \* what each listener callback has been called with
    disposables,    \* history: the disposers onConnectionCreated/Closed returned
    observed,       \* history: the manager as a listener sees it when called
    apiConnectionCounter,
    apiConnectionClosedCounter,
    apiCallCounter, \* gitpod_api_call, per method label
    env,            \* process.env: the RATE_LIMITER_* settings (0: not set)
    limiters,       \* the rate limiter objects created so far
    instances,      \* UserRateLimiter.instances: user -> index in limiters (0: none)
    anonymInstance, \* AnonymRateLimiter.instance_: index in limiters (0: none)
    calls,          \* the onRequest invocations in flight
    response,       \* how the onRequest invocation settled last has ended
    admitted        \* history: per actor and limiter field, the calls let through
                    \* since the first of them, and the ms left of one duration

connVars == <<servers, handlers, events, delivered, disposables, observed,
              apiConnectionCounter, apiConnectionClosedCounter>>
rateVars == <<apiCallCounter, env, limiters, instances, anonymInstance,
              calls, response, admitted>>
vars == <<servers, handlers, events, delivered, disposables, observed,
          apiConnectionCounter, apiConnectionClosedCounter,
          apiCallCounter, env, limiters, instances, anonymInstance,
          calls, response, admitted>>

(***************************************************************************)
(* Sequence helpers: Array.prototype.findIndex and splice.                 *)
(***************************************************************************)
\* index of the first element equal to x, 0 when there is none (JS: -1)
FindIndex(s, x) ==
    IF \E i \in 1..Len(s) : s[i] = x
    THEN CHOOSE i \in 1..Len(s) : s[i] = x /\ \A j \in 1..(i - 1) : s[j] # x
    ELSE 0

\* Array.prototype.splice(start) with its deleteCount omitted: every element
\* from start to the end of the array is removed.  start is 1-based here; a
\* start below 1 counts from the end, as a negative start does in JS.
SpliceFrom(s, start) ==
    IF start >= 1 THEN SubSeq(s, 1, start - 1)
    ELSE SubSeq(s, 1, Len(s) + start - 1)

Range(s) == {s[i] : i \in 1..Len(s)}

(***************************************************************************)
(* auth/rate-limiter.ts.  RateLimiterMemory is the fixed-window counter of  *)
(* rate-limiter-flexible: per key the points consumed in the current       *)
(* window and the time left until the window ends.                         *)
(***************************************************************************)
Keys == Users \cup Methods

\* a key with no record in the memory storage
NoRecord == [consumedPoints |-> 0, msBeforeNext |-> 0]

\* `Number(process.env.X) || dflt`: an unset (or zero) setting yields dflt
NumberOr(x, dflt) == IF x = 0 THEN dflt ELSE x

\* new RateLimiterMemory({ points, duration })
RateLimiterMemory(points, duration) ==
    [points |-> points, duration |-> duration, storage |-> [k \in Keys |-> NoRecord]]

\* RateLimiterMemory.consume(key): one point is added to the key's record (a
\* new window of `duration` seconds begins when the key has none); the
\* promise is rejected when more than `points` are consumed in the window
RateLimiterMemory_consume(rl, key) ==
    LET old == rl.storage[key]
        rec == IF old.msBeforeNext > 0
               THEN [old EXCEPT !.consumedPoints = @ + 1]
               ELSE [consumedPoints |-> 1, msBeforeNext |-> rl.duration * 1000]
    IN [limiter |-> [rl EXCEPT !.storage[key] = rec],
        rejected |-> rec.consumedPoints > rl.points,
        msBeforeNext |-> rec.msBeforeNext]

\* the storage's expiry timers after d ms: a record whose window has ended is
\* deleted
RateLimiterMemory_elapse(rl, d) ==
    [rl EXCEPT !.storage =
        [k \in Keys |-> IF @[k].msBeforeNext > d
                        THEN [@[k] EXCEPT !.msBeforeNext = @ - d]
                        ELSE NoRecord]]

\* enum MethodType
MethodType_One == 0
MethodType_Two == 1
MethodType_Three == 2

\* methodTypeMappingObject(), restricted to the methods of the model: every
\* entry of the table is MethodType.One
methodTypeMappingObject ==
    [m \in {"getWorkspaces", "getToken"} |-> MethodType_One]

isGroupType(method, type) ==
    /\ method \in DOMAIN methodTypeMappingObject
    /\ methodTypeMappingObject[method] = type

\* new AnonymRateLimiter()
AnonymRateLimiter_new(e) ==
    [class |-> "AnonymRateLimiter", user |-> Anonym,
     rateLimiter |-> RateLimiterMemory(NumberOr(e.RATE_LIMITER_ANON_POINTS, 10),
                                       NumberOr(e.RATE_LIMITER_ANON_DURATION, 60))]

\* AnonymRateLimiter.consume(method): the field and key it charges
AnonymRateLimiter_charge(lim, method) ==
    [field |-> "rateLimiter", key |-> method]

\* the constructor with rateLimiterOne given the points of tier two
UserRateLimiter_new_WrongPoints(user, e) ==
    [class |-> "UserRateLimiter", user |-> user,
     rateLimiterOne |-> RateLimiterMemory(NumberOr(e.RATE_LIMITER_TWO_POINTS, 15),
                                          NumberOr(e.RATE_LIMITER_ONE_DURATION, 60)),
     rateLimiterTwo |-> RateLimiterMemory(NumberOr(e.RATE_LIMITER_TWO_POINTS, 15),
                                          NumberOr(e.RATE_LIMITER_TWO_DURATION, 60)),
     rateLimiterThree |-> RateLimiterMemory(NumberOr(e.RATE_LIMITER_THREE_POINTS, 10),
                                            NumberOr(e.RATE_LIMITER_THREE_DURATION, 60))]

\* the constructor with windows of ten times the configured duration
UserRateLimiter_new_LongWindow(user, e) ==
    [class |-> "UserRateLimiter", user |-> user,
     rateLimiterOne |-> RateLimiterMemory(NumberOr(e.RATE_LIMITER_ONE_POINTS, 5),
                                          10 * NumberOr(e.RATE_LIMITER_ONE_DURATION, 60)),
     rateLimiterTwo |-> RateLimiterMemory(NumberOr(e.RATE_LIMITER_TWO_POINTS, 15),
                                          10 * NumberOr(e.RATE_LIMITER_TWO_DURATION, 60)),
     rateLimiterThree |-> RateLimiterMemory(NumberOr(e.RATE_LIMITER_THREE_POINTS, 10),
                                            10 * NumberOr(e.RATE_LIMITER_THREE_DURATION, 60))]

\* new UserRateLimiter(user)
UserRateLimiter_new(user, e) ==
    [class |-> "UserRateLimiter", user |-> user,
     rateLimiterOne |-> RateLimiterMemory(NumberOr(e.RATE_LIMITER_ONE_POINTS, 5),
                                          NumberOr(e.RATE_LIMITER_ONE_DURATION, 60)),
     rateLimiterTwo |-> RateLimiterMemory(NumberOr(e.RATE_LIMITER_TWO_POINTS, 15),
                                          NumberOr(e.RATE_LIMITER_TWO_DURATION, 60)),
     rateLimiterThree |-> RateLimiterMemory(NumberOr(e.RATE_LIMITER_THREE_POINTS, 10),
                                            NumberOr(e.RATE_LIMITER_THREE_DURATION, 60))]

\* consume with the fallback charged to rateLimiterOne
UserRateLimiter_charge_FallbackOne(lim, method) ==
    [field |-> IF isGroupType(method, MethodType_Two) THEN "rateLimiterTwo"
               ELSE IF isGroupType(method, MethodType_Three) THEN "rateLimiterThree"
               ELSE "rateLimiterOne",
     key |-> lim.user]

\* UserRateLimiter.consume(method): the field and key it charges
UserRateLimiter_charge(lim, method) ==
    [field |-> IF isGroupType(method, MethodType_One) THEN "rateLimiterOne"
               ELSE IF isGroupType(method, MethodType_Two) THEN "rateLimiterTwo"
               ELSE IF isGroupType(method, MethodType_Three) THEN "rateLimiterThree"
               ELSE "rateLimiterThree",
     key |-> lim.user]

\* RateLimiter.consume(method) of either class: the limiter after the call and
\* how its promise settles
RateLimiter_consume(lim, method) ==
    LET ch == IF lim.class = "UserRateLimiter"
              THEN UserRateLimiter_charge(lim, method)
              ELSE AnonymRateLimiter_charge(lim, method)
        r == RateLimiterMemory_consume(lim[ch.field], ch.key)
    IN [limiter |-> [lim EXCEPT ![ch.field] = r.limiter],
        field |-> ch.field,
        points |-> lim[ch.field].points,
        duration |-> lim[ch.field].duration,
        rejected |-> r.rejected,
        msBeforeNext |-> r.msBeforeNext]

RateLimiter_elapse(lim, d) ==
    IF lim.class = "UserRateLimiter"
    THEN [lim EXCEPT !.rateLimiterOne = RateLimiterMemory_elapse(@, d),
                     !.rateLimiterTwo = RateLimiterMemory_elapse(@, d),
                     !.rateLimiterThree = RateLimiterMemory_elapse(@, d)]
    ELSE [lim EXCEPT !.rateLimiter = RateLimiterMemory_elapse(@, d)]

\* instance(user) that builds a limiter on every call
UserRateLimiter_instance_NoReuse(lims, insts, user) ==
    [limiters |-> Append(lims, UserRateLimiter_new(user, env)),
     instances |-> IF insts[user] = 0 THEN [insts EXCEPT ![user] = Len(lims) + 1]
                   ELSE insts,
     ref |-> Len(lims) + 1]

\* instance(user) with one limiter cached for all users
UserRateLimiter_instance_Shared(lims, insts, user) ==
    IF \E u \in Users : insts[u] # 0
    THEN LET first == CHOOSE u \in Users : insts[u] # 0
         IN [limiters |-> lims, instances |-> [insts EXCEPT ![user] = insts[first]],
             ref |-> insts[first]]
    ELSE [limiters |-> Append(lims, UserRateLimiter_new(user, env)),
          instances |-> [insts EXCEPT ![user] = Len(lims) + 1],
          ref |-> Len(lims) + 1]

\* UserRateLimiter.instance(user): the cached limiter of the user, created and
\* cached on first use
UserRateLimiter_instance(lims, insts, user) ==
    IF insts[user] # 0
    THEN [limiters |-> lims, instances |-> insts, ref |-> insts[user]]
    ELSE [limiters |-> Append(lims, UserRateLimiter_new(user, env)),
          instances |-> [insts EXCEPT ![user] = Len(lims) + 1],
          ref |-> Len(lims) + 1]

\* AnonymRateLimiter.instance()
AnonymRateLimiter_instance(lims, inst) ==
    IF inst # 0
    THEN [limiters |-> lims, instance_ |-> inst, ref |-> inst]
    ELSE [limiters |-> Append(lims, AnonymRateLimiter_new(env)),
          instance_ |-> Len(lims) + 1,
          ref |-> Len(lims) + 1]

(***************************************************************************)
(* WebsocketConnectionManager                                              *)
(***************************************************************************)
AllAccessFunctionGuard == [kind |-> "AllAccessFunctionGuard", denied |-> {}]

\* a function guard supplied by the request: it denies getToken
ExplicitFunctionGuard == [kind |-> "explicit", denied |-> {"getToken"}]

\* FunctionAccessGuard.canAccess(method)
canAccess(guard, method) == method \notin guard.denied

NoHandler ==
    [established |-> FALSE, user |-> NoUser, closeSignals |-> 0, disposed |-> 0,
     resourceGuard |-> "none", functionGuard |-> AllAccessFunctionGuard,
     rateLimiter |-> 0]

\* the upgrade requests of the model: the authenticated user or none, and the
\* guards attached upstream (functionGuard FALSE, resourceGuard FALSE: none)
Request(user, withFunctionGuard, withResourceGuard) ==
    [user |-> user, functionGuard |-> withFunctionGuard,
     resourceGuard |-> withResourceGuard]

createAccessGuard(request) ==
    IF request.functionGuard THEN ExplicitFunctionGuard ELSE AllAccessFunctionGuard

\* createProxyTarget with the explicit guard looked at for known users only
resourceGuardOf_AnonymDenied(request) ==
    IF request.user = NoUser THEN "denyAll"
    ELSE IF request.resourceGuard THEN "explicit"
    ELSE "CompositeResourceAccessGuard"

\* the resource guard createProxyTarget binds to the handler
resourceGuardOf(request) ==
    IF request.resourceGuard THEN "explicit"
    ELSE IF request.user # NoUser THEN "CompositeResourceAccessGuard"
    ELSE "denyAll"

\* the resources of the model: who owns one, and whether it is shared
Resources == [owner : Users, shared : BOOLEAN]

\* CompositeResourceAccessGuard([OwnerResourceGuard(user.id),
\* SharedWorkspaceAccessGuard()]).canAccess(resource): any member grants
CompositeResourceAccessGuard_canAccess(user, resource) ==
    resource.owner = user \/ resource.shared

\* resourceGuard.canAccess(resource) of the guard bound to connection c.  The
\* guard supplied by the request grants every resource; the guard of an
\* anonymous connection without one is { canAccess: async () => false }.
ResourceAccessGuard_canAccess(c, resource) ==
    CASE handlers[c].resourceGuard = "explicit" -> TRUE
      [] handlers[c].resourceGuard = "CompositeResourceAccessGuard" ->
            CompositeResourceAccessGuard_canAccess(handlers[c].user, resource)
      [] OTHER -> FALSE

\* removeServer without the index !== -1 test: splice(-1) drops the last element
removeServer_NoGuard(srv, uuid) ==
    SpliceFrom(srv, FindIndex(srv, uuid))

\* removeServer(oddServer): the new value of this.servers
removeServer(srv, uuid) ==
    LET index == FindIndex(srv, uuid)
    IN IF index # 0 THEN SpliceFrom(srv, index) ELSE srv

currentConnectionCount == Len(servers)

\* this.events.emit(name, gitpodServer): every listener of name is called once
\* per registration, with the handler
Emit(dl, name, c) ==
    [l \in Listeners |->
        [dl[l] EXCEPT ![name][c] =
            @ + Cardinality({i \in 1..Len(events[name]) : events[name][i] = l})]]

\* no event was emitted with the handler yet
NoObserved ==
    [emits |-> 0, counted |-> FALSE, registered |-> FALSE, initialized |-> FALSE,
     disposed |-> FALSE]

\* what a listener called by emit(name, gitpodServer) finds when the live set
\* is srv and the handlers are hs: whether currentConnectionCount is one more
\* than before the connection event, and whether the handler is in the live
\* set, is initialized, is disposed
Observe(obs, name, c, srv, hs) ==
    [obs EXCEPT ![name][c] =
        [emits |-> @.emits + 1, counted |-> Len(srv) = currentConnectionCount + 1,
         registered |-> c \in Range(srv),
         initialized |-> hs[c].established,
         disposed |-> hs[c].disposed > 0]]

\* this.events.off(name, l): the most recently added registration of l is
\* removed from the listeners of the event, if there is one
RemoveListener(s, l) ==
    IF \E i \in 1..Len(s) : s[i] = l
    THEN LET last == CHOOSE i \in 1..Len(s) :
                        s[i] = l /\ \A j \in (i + 1)..Len(s) : s[j] # l
         IN SubSeq(s, 1, last - 1) \o SubSeq(s, last + 1, Len(s))
    ELSE s

\* createRateLimiter(request)
createRateLimiter(request) ==
    IF request.user # NoUser
    THEN LET r == UserRateLimiter_instance(limiters, instances, request.user)
         IN [limiters |-> r.limiters, instances |-> r.instances,
             anonymInstance |-> anonymInstance, ref |-> r.ref]
    ELSE LET r == AnonymRateLimiter_instance(limiters, anonymInstance)
         IN [limiters |-> r.limiters, instances |-> instances,
             anonymInstance |-> r.instance_, ref |-> r.ref]

\* GitpodJsonRpcConnectionHandler.onConnection for a new transport session c:
\* the function guard and the rate limiter are picked for the request, then
\* createProxyTarget builds, registers and announces the handler
onConnection(c, request) ==
    /\ ~handlers[c].established
    /\ \A d \in 1..(c - 1) : handlers[d].established
    /\ LET rl == createRateLimiter(request)
       IN /\ limiters' = rl.limiters
          /\ instances' = rl.instances
          /\ anonymInstance' = rl.anonymInstance
          /\ handlers' = [handlers EXCEPT ![c] =
                [established |-> TRUE, user |-> request.user,
                 closeSignals |-> 0, disposed |-> 0,
                 resourceGuard |-> resourceGuardOf(request),
                 functionGuard |-> createAccessGuard(request),
                 rateLimiter |-> rl.ref]]
    /\ servers' = Append(servers, c)
    /\ delivered' = Emit(delivered, EVENT_CONNECTION_CREATED, c)
    /\ observed' = Observe(observed, EVENT_CONNECTION_CREATED, c, servers', handlers')
    /\ UNCHANGED <<events, disposables, apiConnectionCounter, apiConnectionClosedCounter,
                   apiCallCounter, env, calls, response, admitted>>

\* the close callback with the user's cached rate limiter dropped
onDidCloseConnection_Evicting(c) ==
    /\ handlers[c].established
    /\ handlers[c].closeSignals < MaxCloseSignals
    /\ handlers' = [handlers EXCEPT ![c].closeSignals = @ + 1,
                                    ![c].disposed = @ + 1]
    /\ servers' = removeServer(servers, c)
    /\ delivered' = Emit(delivered, EVENT_CONNECTION_CLOSED, c)
    /\ observed' = Observe(observed, EVENT_CONNECTION_CLOSED, c, servers', handlers')
    /\ instances' = [u \in Users |-> IF u = handlers[c].user THEN 0 ELSE instances[u]]
    /\ UNCHANGED <<events, disposables, apiConnectionCounter, apiConnectionClosedCounter>>
    /\ UNCHANGED <<apiCallCounter, env, limiters, anonymInstance, calls, response, admitted>>

\* the close callback with the event emitted before dispose and removeServer
onDidCloseConnection_EmitFirst(c) ==
    /\ handlers[c].established
    /\ handlers[c].closeSignals < MaxCloseSignals
    /\ delivered' = Emit(delivered, EVENT_CONNECTION_CLOSED, c)
    /\ observed' = Observe(observed, EVENT_CONNECTION_CLOSED, c, servers, handlers)
    /\ handlers' = [handlers EXCEPT ![c].closeSignals = @ + 1,
                                    ![c].disposed = @ + 1]
    /\ servers' = removeServer(servers, c)
    /\ UNCHANGED <<events, disposables, apiConnectionCounter, apiConnectionClosedCounter>>
    /\ UNCHANGED rateVars

\* the callback given to client.onDidCloseConnection, run on each close signal
onDidCloseConnection(c) ==
    /\ handlers[c].established
    /\ handlers[c].closeSignals < MaxCloseSignals
    /\ handlers' = [handlers EXCEPT ![c].closeSignals = @ + 1,
                                    ![c].disposed = @ + 1]
    /\ servers' = removeServer(servers, c)
    /\ delivered' = Emit(delivered, EVENT_CONNECTION_CLOSED, c)
    /\ observed' = Observe(observed, EVENT_CONNECTION_CLOSED, c, servers', handlers')
    /\ UNCHANGED <<events, disposables, apiConnectionCounter, apiConnectionClosedCounter>>
    /\ UNCHANGED rateVars

onConnectionCreated(l) ==
    /\ apiConnectionCounter + apiConnectionClosedCounter < MaxSubs
    /\ apiConnectionCounter' = apiConnectionCounter + 1
    /\ events' = [events EXCEPT ![EVENT_CONNECTION_CREATED] = Append(@, l)]
    /\ disposables' = [disposables EXCEPT ![EVENT_CONNECTION_CREATED] =
                            Append(@, [listener |-> l, called |-> 0])]
    /\ UNCHANGED <<servers, handlers, delivered, observed, apiConnectionClosedCounter>>
    /\ UNCHANGED rateVars

onConnectionClosed(l) ==
    /\ apiConnectionCounter + apiConnectionClosedCounter < MaxSubs
    /\ apiConnectionClosedCounter' = apiConnectionClosedCounter + 1
    /\ events' = [events EXCEPT ![EVENT_CONNECTION_CLOSED] = Append(@, l)]
    /\ disposables' = [disposables EXCEPT ![EVENT_CONNECTION_CLOSED] =
                            Append(@, [listener |-> l, called |-> 0])]
    /\ UNCHANGED <<servers, handlers, delivered, observed, apiConnectionCounter>>
    /\ UNCHANGED rateVars

\* dispose() of the i-th Disposable returned for event name: events.off with
\* the listener it was created for
Disposable_dispose(name, i) ==
    /\ i \in 1..Len(disposables[name])
    /\ disposables[name][i].called < MaxDisposeCalls
    /\ events' = [events EXCEPT ![name] = RemoveListener(@, disposables[name][i].listener)]
    /\ disposables' = [disposables EXCEPT ![name][i].called = @ + 1]
    /\ UNCHANGED <<servers, handlers, delivered, observed,
                   apiConnectionCounter, apiConnectionClosedCounter>>
    /\ UNCHANGED rateVars

(***************************************************************************)
(* GitpodJsonRpcProxyFactory                                               *)
(***************************************************************************)
Slots == 1..MaxInFlight

IdleCall == [pc |-> "idle", conn |-> 0, method |-> "", steps |-> <<>>]

NoResponse ==
    [code |-> "none", method |-> "", steps |-> <<>>,
     retryAfter |-> [type |-> "undefined", digits |-> <<>>]]

\* String(n) of a natural number: its decimal digits
RECURSIVE String(_)
String(n) == IF n < 10 THEN <<n>> ELSE Append(String(n \div 10), n % 10)

\* Math.round(ms / 1000) of a natural number of milliseconds
RoundSeconds(ms) == (ms + 500) \div 1000

\* the "Retry-After" detail: String(Math.round(msBeforeNext / 1000)) || 1.
\* A string is falsy only when it is empty.
RetryAfter(msBeforeNext) ==
    LET str == String(RoundSeconds(msBeforeNext))
    IN IF Len(str) > 0 THEN [type |-> "string", digits |-> str]
       ELSE [type |-> "number", digits |-> <<1>>]

\* the number a Retry-After detail reads as
RECURSIVE DigitsValue(_)
DigitsValue(ds) ==
    IF Len(ds) = 0 THEN 0
    ELSE 10 * DigitsValue(SubSeq(ds, 1, Len(ds) - 1)) + ds[Len(ds)]

TotalCalls == apiCallCounter["getWorkspaces"] + apiCallCounter["getToken"]
              + apiCallCounter["bogusMethod"]

FreeSlot == CHOOSE k \in Slots : calls[k].pc = "idle" /\ \A j \in 1..(k - 1) : calls[j].pc # "idle"

\* the history of admitted calls after one more of actor a on limiter field f
Admit(adm, a, f, duration) ==
    [adm EXCEPT ![a][f] = IF @.msLeft > 0 THEN [@ EXCEPT !.count = @ + 1]
                          ELSE [count |-> 1, msLeft |-> duration * 1000]]

\* onRequest with the function guard asked before the rate limiter
onRequest_GuardFirst(c, method) ==
    /\ handlers[c].established /\ handlers[c].closeSignals = 0
    /\ TotalCalls < MaxCalls
    /\ apiCallCounter' = [apiCallCounter EXCEPT ![method] = @ + 1]
    /\ IF ~canAccess(handlers[c].functionGuard, method)
       THEN /\ response' = [code |-> "PERMISSION_DENIED", method |-> method,
                            steps |-> <<"canAccess">>, retryAfter |-> NoResponse.retryAfter]
            /\ UNCHANGED <<limiters, calls, admitted>>
       ELSE LET lim == limiters[handlers[c].rateLimiter]
                r == RateLimiter_consume(lim, method)
            IN /\ r.rejected \/ \E k \in Slots : calls[k].pc = "idle"
               /\ limiters' = [limiters EXCEPT ![handlers[c].rateLimiter] = r.limiter]
               /\ IF r.rejected
                  THEN /\ response' = [code |-> "TOO_MANY_REQUESTS",
                                       method |-> method, steps |-> <<"canAccess", "consume">>,
                                       retryAfter |-> RetryAfter(r.msBeforeNext)]
                       /\ UNCHANGED <<calls, admitted>>
                  ELSE /\ calls' = [calls EXCEPT ![FreeSlot] =
                               [pc |-> "consumed", conn |-> c, method |-> method,
                                steps |-> <<"canAccess", "consume">>]]
                       /\ admitted' = Admit(admitted, lim.user, r.field, r.duration)
                       /\ UNCHANGED response
    /\ UNCHANGED <<env, instances, anonymInstance>>
    /\ UNCHANGED connVars

\* onRequest(method, ...args) on connection c, up to the end of its first
\* try block: the call metric, rateLimiter.consume, and the
\* TOO_MANY_REQUESTS rejection when the limiter rejects.  An admitted call
\* waits in a slot for its next step; at most MaxInFlight calls wait.
onRequest(c, method) ==
    /\ handlers[c].established /\ handlers[c].closeSignals = 0
    /\ TotalCalls < MaxCalls
    /\ apiCallCounter' = [apiCallCounter EXCEPT ![method] = @ + 1]
    /\ LET lim == limiters[handlers[c].rateLimiter]
           r == RateLimiter_consume(lim, method)
       IN /\ r.rejected \/ \E k \in Slots : calls[k].pc = "idle"
          /\ limiters' = [limiters EXCEPT ![handlers[c].rateLimiter] = r.limiter]
          /\ IF r.rejected
             THEN /\ response' = [code |-> "TOO_MANY_REQUESTS",
                                  method |-> method, steps |-> <<"consume">>,
                                  retryAfter |-> RetryAfter(r.msBeforeNext)]
                  /\ UNCHANGED <<calls, admitted>>
             ELSE /\ calls' = [calls EXCEPT ![FreeSlot] =
                          [pc |-> "consumed", conn |-> c, method |-> method,
                           steps |-> <<"consume">>]]
                  /\ admitted' = Admit(admitted, lim.user, r.field, r.duration)
                  /\ UNCHANGED response
    /\ UNCHANGED <<env, instances, anonymInstance>>
    /\ UNCHANGED connVars

\* the step after the limiter admitted the call, with the function guard left
\* out: the handler's method is invoked at once
onRequest_canAccess_Skipped(k) ==
    /\ calls[k].pc = "consumed"
    /\ calls' = [calls EXCEPT ![k].pc = "target", ![k].steps = Append(@, "target")]
    /\ UNCHANGED <<apiCallCounter, env, limiters, instances, anonymInstance,
                   admitted, response>>
    /\ UNCHANGED connVars

\* onRequest of the call in slot k after the limiter admitted it: the function
\* guard is asked, and the handler's method is invoked when it grants
onRequest_canAccess(k) ==
    /\ calls[k].pc = "consumed"
    /\ LET call == calls[k]
       IN IF ~canAccess(handlers[call.conn].functionGuard, call.method)
          THEN /\ response' = [code |-> "PERMISSION_DENIED",
                               method |-> call.method,
                               steps |-> Append(call.steps, "canAccess"),
                               retryAfter |-> NoResponse.retryAfter]
               /\ calls' = [calls EXCEPT ![k] = IdleCall]
          ELSE /\ calls' = [calls EXCEPT ![k].pc = "target",
                                         ![k].steps = @ \o <<"canAccess", "target">>]
               /\ UNCHANGED response
    /\ UNCHANGED <<apiCallCounter, env, limiters, instances, anonymInstance, admitted>>
    /\ UNCHANGED connVars

\* the handler's method of the call in slot k returns its result
onRequest_return(k) ==
    /\ calls[k].pc = "target"
    /\ response' = [code |-> "OK", method |-> calls[k].method,
                    steps |-> calls[k].steps, retryAfter |-> NoResponse.retryAfter]
    /\ calls' = [calls EXCEPT ![k] = IdleCall]
    /\ UNCHANGED <<apiCallCounter, env, limiters, instances, anonymInstance, admitted>>
    /\ UNCHANGED connVars

\* the failures a handler method can throw: a ResponseError with its code,
\* or an Error that is not a ResponseError
TargetFailures == {"NOT_FOUND", "Error"}

\* code is the code of a ResponseError (e instanceof ResponseError)
IsResponseError(code) == code # "Error"

\* the handler's method of the call in slot k throws e: the catch block of
\* onRequest logs it and throws e itself
onRequest_catch(k, e) ==
    /\ calls[k].pc = "target"
    /\ response' = [code |-> e, method |-> calls[k].method,
                    steps |-> calls[k].steps, retryAfter |-> NoResponse.retryAfter]
    /\ calls' = [calls EXCEPT ![k] = IdleCall]
    /\ UNCHANGED <<apiCallCounter, env, limiters, instances, anonymInstance, admitted>>
    /\ UNCHANGED connVars

\* onRequest with every rejection of consume taken for a quota rejection
onRequest_consumeError_AsQuota(c, method) ==
    /\ handlers[c].established /\ handlers[c].closeSignals = 0
    /\ TotalCalls < MaxCalls
    /\ apiCallCounter' = [apiCallCounter EXCEPT ![method] = @ + 1]
    /\ response' = [code |-> "TOO_MANY_REQUESTS", method |-> method,
                    steps |-> <<"consume">>, retryAfter |-> RetryAfter(0)]
    /\ UNCHANGED <<env, limiters, instances, anonymInstance, calls, admitted>>
    /\ UNCHANGED connVars

\* onRequest(method, ...args) on connection c when rateLimiter.consume rejects
\* with an Error: the Error is logged and thrown.  The limiter is taken to
\* have failed before it recorded the point.
onRequest_consumeError(c, method) ==
    /\ handlers[c].established /\ handlers[c].closeSignals = 0
    /\ TotalCalls < MaxCalls
    /\ apiCallCounter' = [apiCallCounter EXCEPT ![method] = @ + 1]
    /\ response' = [code |-> "Error", method |-> method,
                    steps |-> <<"consume">>, retryAfter |-> NoResponse.retryAfter]
    /\ UNCHANGED <<env, limiters, instances, anonymInstance, calls, admitted>>
    /\ UNCHANGED connVars

\* onNotification answered as onRequest answers a request
onNotification_AsRequest(c, method) == onRequest(c, method)

\* onNotification(method, ...params) on connection c
onNotification(c, method) ==
    /\ handlers[c].established /\ handlers[c].closeSignals = 0
    /\ response' = [code |-> "INVALID_REQUEST", method |-> method,
                    steps |-> <<>>, retryAfter |-> NoResponse.retryAfter]
    /\ UNCHANGED <<apiCallCounter, env, limiters, instances, anonymInstance,
                   calls, admitted>>
    /\ UNCHANGED connVars

(***************************************************************************)
(* The clock                                                               *)
(***************************************************************************)
Actors == Users \cup {Anonym}
Fields == {"rateLimiterOne", "rateLimiterTwo", "rateLimiterThree", "rateLimiter"}

\* d ms pass: the windows of all limiters run down
Tick(d) ==
    /\ limiters' = [i \in 1..Len(limiters) |-> RateLimiter_elapse(limiters[i], d)]
    /\ admitted' = [a \in Actors |-> [f \in Fields |->
                        IF admitted[a][f].msLeft > d
                        THEN [admitted[a][f] EXCEPT !.msLeft = @ - d]
                        ELSE [count |-> 0, msLeft |-> 0]]]
    /\ UNCHANGED <<apiCallCounter, env, instances, anonymInstance, calls, response>>
    /\ UNCHANGED connVars

(***************************************************************************)
(* Specifications                                                          *)
(***************************************************************************)
\* process.env with no RATE_LIMITER_* setting: the defaults apply
EnvDefault ==
    [RATE_LIMITER_ONE_POINTS |-> 0, RATE_LIMITER_ONE_DURATION |-> 0,
     RATE_LIMITER_TWO_POINTS |-> 0, RATE_LIMITER_TWO_DURATION |-> 0,
     RATE_LIMITER_THREE_POINTS |-> 0, RATE_LIMITER_THREE_DURATION |-> 0,
     RATE_LIMITER_ANON_POINTS |-> 0, RATE_LIMITER_ANON_DURATION |-> 0]

\* process.env with small quotas, ordered as the defaults are
EnvSmall ==
    [EnvDefault EXCEPT !.RATE_LIMITER_ONE_POINTS = 2, !.RATE_LIMITER_TWO_POINTS = 4,
                       !.RATE_LIMITER_THREE_POINTS = 3, !.RATE_LIMITER_ANON_POINTS = 2]

InitEnv(e) ==
    /\ servers = <<>>
    /\ handlers = [c \in Conns |-> NoHandler]
    /\ events = [n \in EventNames |-> <<>>]
    /\ delivered = [l \in Listeners |-> [n \in EventNames |-> [c \in Conns |-> 0]]]
    /\ disposables = [n \in EventNames |-> <<>>]
    /\ observed = [n \in EventNames |-> [c \in Conns |-> NoObserved]]
    /\ apiConnectionCounter = 0
    /\ apiConnectionClosedCounter = 0
    /\ apiCallCounter = [m \in Methods |-> 0]
    /\ env = e
    /\ limiters = <<>>
    /\ instances = [u \in Users |-> 0]
    /\ anonymInstance = 0
    /\ calls = [k \in Slots |-> IdleCall]
    /\ response = NoResponse
    /\ admitted = [a \in Actors |-> [f \in Fields |-> [count |-> 0, msLeft |-> 0]]]

Init == \E e \in {EnvDefault, EnvSmall} : InitEnv(e)

NoCallInFlight == \A k \in Slots : calls[k].pc = "idle"

\* connections of one user, with and without a function guard, and their
\* calls in flight together
Next ==
    \/ \E c \in Conns, g \in BOOLEAN : onConnection(c, Request("alice", g, FALSE))
    \/ \E c \in Conns, m \in {"getWorkspaces", "getToken"} : onRequest(c, m)
    \/ \E k \in Slots : onRequest_canAccess(k)
    \/ \E k \in Slots : onRequest_return(k)

Spec == Init /\ [][Next]_vars

\* one user's calls, one at a time, of a classified and of an unclassified
\* method, while time passes
NextQuota ==
    \/ \E c \in Conns : onConnection(c, Request("alice", FALSE, FALSE))
    \/ \E c \in Conns, m \in {"getWorkspaces", "bogusMethod"} :
            NoCallInFlight /\ onRequest(c, m)
    \/ \E k \in Slots : onRequest_canAccess(k)
    \/ \E k \in Slots : onRequest_return(k)
    \/ \E d \in TickSteps : Tick(d)

SpecQuota == Init /\ [][NextQuota]_vars

\* anonymous connections and their calls, one at a time
NextAnonym ==
    \/ \E c \in Conns : onConnection(c, Request(NoUser, FALSE, FALSE))
    \/ \E c \in Conns, m \in {"getWorkspaces", "getToken"} :
            NoCallInFlight /\ onRequest(c, m)
    \/ \E k \in Slots : onRequest_canAccess(k)
    \/ \E k \in Slots : onRequest_return(k)
    \/ \E d \in TickSteps : Tick(d)

SpecAnonym == Init /\ [][NextAnonym]_vars

\* connections, close signals and event subscriptions
NextLifecycle ==
    \/ \E c \in Conns : onConnection(c, Request("alice", FALSE, FALSE))
    \/ \E c \in Conns : onDidCloseConnection(c)
    \/ \E l \in Listeners : onConnectionCreated(l)
    \/ \E l \in Listeners : onConnectionClosed(l)

SpecLifecycle == Init /\ [][NextLifecycle]_vars

\* requests and notifications of a user's and of anonymous connections, the
\* failures of the limiter and of the handler's methods included
NextProtocol ==
    \/ \E c \in Conns, u \in {"alice", NoUser} : onConnection(c, Request(u, FALSE, FALSE))
    \/ \E c \in Conns : NoCallInFlight /\ onRequest(c, "getWorkspaces")
    \/ \E c \in Conns : onRequest_consumeError(c, "getWorkspaces")
    \/ \E k \in Slots : onRequest_canAccess(k)
    \/ \E k \in Slots : onRequest_return(k)
    \/ \E k \in Slots, e \in TargetFailures : onRequest_catch(k, e)
    \/ \E c \in Conns, m \in {"getWorkspaces", "bogusMethod"} : onNotification(c, m)

SpecProtocol == Init /\ [][NextProtocol]_vars

\* connections of a user and of nobody, with and without the guards a request
\* can carry, and calls of the method the supplied function guard denies
NextGuards ==
    \/ \E c \in Conns, u \in {"alice", NoUser}, g \in BOOLEAN, rg \in BOOLEAN :
            onConnection(c, Request(u, g, rg))
    \/ \E c \in Conns : NoCallInFlight /\ onRequest(c, "getToken")
    \/ \E k \in Slots : onRequest_canAccess(k)
    \/ \E k \in Slots : onRequest_return(k)

SpecGuards == Init /\ [][NextGuards]_vars

\* event subscriptions, their disposers, and connections
NextSubscriptions ==
    \/ \E c \in Conns : onConnection(c, Request("alice", FALSE, FALSE))
    \/ \E c \in Conns : onDidCloseConnection(c)
    \/ \E l \in Listeners : onConnectionCreated(l)
    \/ \E l \in Listeners : onConnectionClosed(l)
    \/ \E n \in EventNames, i \in 1..MaxSubs : Disposable_dispose(n, i)

SpecSubscriptions == Init /\ [][NextSubscriptions]_vars

\* connections of two users and their calls, one at a time, of a classified
\* and of an unclassified method, while whole windows pass
NextActors ==
    \/ \E c \in Conns, u \in Users : onConnection(c, Request(u, FALSE, FALSE))
    \/ \E c \in Conns, m \in {"getWorkspaces", "bogusMethod"} :
            NoCallInFlight /\ onRequest(c, m)
    \/ \E k \in Slots : onRequest_canAccess(k)
    \/ \E k \in Slots : onRequest_return(k)
    \/ Tick(60 * 1000)

SpecActors == Init /\ [][NextActors]_vars

\* one user's connections opening and closing, each closed once, between the
\* calls, while whole windows pass
NextReconnect ==
    \/ \E c \in Conns : onConnection(c, Request("alice", FALSE, FALSE))
    \/ \E c \in Conns : handlers[c].closeSignals = 0 /\ onDidCloseConnection(c)
    \/ \E c \in Conns : onRequest(c, "getWorkspaces")
    \/ \E k \in Slots : onRequest_canAccess(k)
    \/ \E k \in Slots : onRequest_return(k)
    \/ Tick(60 * 1000)

SpecReconnect == Init /\ [][NextReconnect]_vars

(***************************************************************************)
(* Connection registry claims                                              *)
(***************************************************************************)
\* connections established that have received no close signal yet
OpenConns == {c \in Conns : handlers[c].established /\ handlers[c].closeSignals = 0}

\* C1: the live set holds exactly the connections established and not yet
\* closed, and currentConnectionCount is their number
C1_LiveSetExact ==
    /\ Range(servers) = OpenConns
    /\ currentConnectionCount = Cardinality(OpenConns)

\* number of registrations of listener l for event name
Registrations(name, l) ==
    Cardinality({i \in 1..Len(events[name]) : events[name][i] = l})

\* C2: the first close signal of a connection notifies every closed-listener
\* once per registration, and any further close signal of that connection
\* notifies nobody
C2_ClosedNotifiedOnce ==
    [][\A c \in Conns : onDidCloseConnection(c) =>
          \A l \in Listeners :
              delivered'[l][EVENT_CONNECTION_CLOSED][c] =
                  delivered[l][EVENT_CONNECTION_CLOSED][c]
                  + (IF handlers[c].closeSignals = 0
                     THEN Registrations(EVENT_CONNECTION_CLOSED, l) ELSE 0)]_vars

\* C3: a close signal for a connection that is absent from the live set
\* leaves the set and currentConnectionCount unchanged
C3_RemoveAbsentIsNoop ==
    [][\A c \in Conns :
          (onDidCloseConnection(c) /\ c \notin Range(servers)) =>
              (servers' = servers /\ Len(servers') = currentConnectionCount)]_vars

\* a connection has received a second close signal while another connection
\* is registered
C3_Witness ==
    \E c \in Conns :
        /\ handlers[c].closeSignals >= 2
        /\ c \notin Range(servers)
        /\ \E d \in Conns \ {c} : d \in Range(servers)


(***************************************************************************)
(* Rate limiter claims                                                     *)
(***************************************************************************)
Min(a, b) == IF a <= b THEN a ELSE b

UserFields == {"rateLimiterOne", "rateLimiterTwo", "rateLimiterThree"}

\* the points per window the configuration gives a limiter field
ConfiguredPoints(f) ==
    CASE f = "rateLimiterOne" -> NumberOr(env.RATE_LIMITER_ONE_POINTS, 5)
      [] f = "rateLimiterTwo" -> NumberOr(env.RATE_LIMITER_TWO_POINTS, 15)
      [] f = "rateLimiterThree" -> NumberOr(env.RATE_LIMITER_THREE_POINTS, 10)
      [] f = "rateLimiter" -> NumberOr(env.RATE_LIMITER_ANON_POINTS, 10)

UserLimiters == {i \in 1..Len(limiters) : limiters[i].class = "UserRateLimiter"}

\* points consumed in the current window of user limiter i's field f
Consumed(i, f) == limiters[i][f].storage[limiters[i].user].consumedPoints

\* C4: of the consume calls an authenticated actor makes on a tier of N
\* points in one window, exactly the first N are admitted and every later one
\* is rejected (N = 5 for tier one with no setting in the environment)
C4_FirstNAdmitted ==
    \A i \in UserLimiters : \A f \in UserFields :
        admitted[limiters[i].user][f].count = Min(Consumed(i, f), ConfiguredPoints(f))

\* the 6th call of a tier-one method in one window was rejected under the
\* default quotas
C4_Witness ==
    /\ env = EnvDefault
    /\ \E i \in UserLimiters : Consumed(i, "rateLimiterOne") = 6
    /\ admitted["alice"]["rateLimiterOne"].count = 5
    /\ response.code = "TOO_MANY_REQUESTS"
    /\ response.method = "getWorkspaces"

\* C5: the connections of one user share one limiter, and however their calls
\* in flight interleave, no more than N calls of a tier are admitted in a window
C5_NoOverAdmission ==
    /\ \A c1, c2 \in Conns :
          (/\ handlers[c1].established /\ handlers[c2].established
           /\ handlers[c1].user = handlers[c2].user)
          => handlers[c1].rateLimiter = handlers[c2].rateLimiter
    /\ \A u \in Users : \A f \in UserFields :
          admitted[u][f].count <= ConfiguredPoints(f)

\* calls of two connections of one user are in flight together, the tier's
\* quota is used up and a further call was rejected
C5_Witness ==
    /\ \E k1, k2 \in Slots :
          /\ calls[k1].pc # "idle" /\ calls[k2].pc # "idle"
          /\ calls[k1].conn # calls[k2].conn
          /\ handlers[calls[k1].conn].user = handlers[calls[k2].conn].user
    /\ admitted["alice"]["rateLimiterOne"].count = ConfiguredPoints("rateLimiterOne")
    /\ response.code = "TOO_MANY_REQUESTS"

\* C6: the Retry-After detail of a TOO_MANY_REQUESTS rejection is a whole
\* number of seconds, at least 1 and at most the window's duration
C6_RetryAfterAtLeastOne ==
    response.code = "TOO_MANY_REQUESTS" =>
        /\ DigitsValue(response.retryAfter.digits) >= 1
        /\ DigitsValue(response.retryAfter.digits) <= 60

\* C7: the anonymous connections share one counter for all operation names:
\* no more than N anonymous calls are admitted in a window
C7_AnonymSharedPool ==
    admitted[Anonym]["rateLimiter"].count <= ConfiguredPoints("rateLimiter")

\* the field of user limiter i with the fewest points per window
MostRestrictiveField(i) ==
    CHOOSE f \in UserFields : \A g \in UserFields : limiters[i][f].points <= limiters[i][g].points

\* C8 as stated: a call of a method absent from the classification table is
\* charged to the tier with the fewest points
C8_FallbackMostRestrictive ==
    [][\A c \in Conns : onRequest(c, "bogusMethod") =>
          LET i == handlers[c].rateLimiter
          IN limiters'[i][MostRestrictiveField(i)] # limiters[i][MostRestrictiveField(i)]]_vars

\* C8 as amended: a call of a method absent from the classification table
\* settles as any other call does (admitted or rejected for quota) and is
\* charged one point of rateLimiterThree, the other tiers staying as they are
C8_FallbackTierThree ==
    [][\A c \in Conns : onRequest(c, "bogusMethod") =>
          LET i == handlers[c].rateLimiter
          IN /\ Consumed(i, "rateLimiterThree")' = Consumed(i, "rateLimiterThree") + 1
             /\ limiters'[i].rateLimiterOne = limiters[i].rateLimiterOne
             /\ limiters'[i].rateLimiterTwo = limiters[i].rateLimiterTwo
             /\ \/ calls' # calls
                \/ response'.code = "TOO_MANY_REQUESTS" /\ response'.method = "bogusMethod"]_vars

\* an unclassified method was called and admitted while tier one was used up
C8_Witness ==
    \E i \in UserLimiters :
        /\ Consumed(i, "rateLimiterThree") > 0
        /\ Consumed(i, "rateLimiterOne") >= ConfiguredPoints("rateLimiterOne")
        /\ \E k \in Slots : calls[k].pc = "target" /\ calls[k].method = "bogusMethod"

\* C9: the handler's method is invoked only after consume succeeded and then
\* canAccess granted; a quota rejection comes before the guard is asked, a
\* denial before the handler is invoked
C9_PipelineOrder ==
    /\ \A k \in Slots :
          /\ calls[k].pc = "consumed" => calls[k].steps = <<"consume">>
          /\ calls[k].pc = "target" =>
                /\ calls[k].steps = <<"consume", "canAccess", "target">>
                /\ canAccess(handlers[calls[k].conn].functionGuard, calls[k].method)
    /\ response.code = "TOO_MANY_REQUESTS" => response.steps = <<"consume">>
    /\ response.code = "PERMISSION_DENIED" => response.steps = <<"consume", "canAccess">>
    /\ response.code = "OK" => response.steps = <<"consume", "canAccess", "target">>

\* a call was denied by the guard while another call is with the handler
C9_Witness ==
    /\ response.code = "PERMISSION_DENIED"
    /\ \E k \in Slots : calls[k].pc = "target"
    /\ \E k \in Slots : calls[k].pc = "consumed"

\* C10: a call the function guard will deny is charged one point like any
\* other, and once the quota is used up it is answered TOO_MANY_REQUESTS
C10_DeniedCallsConsume ==
    [][\A c \in Conns, m \in Methods :
          (onRequest(c, m) /\ ~canAccess(handlers[c].functionGuard, m)) =>
              LET i == handlers[c].rateLimiter
                  f == UserRateLimiter_charge(limiters[i], m).field
              IN /\ Consumed(i, f)' = Consumed(i, f) + 1
                 /\ Consumed(i, f) >= ConfiguredPoints(f) =>
                        /\ response'.code = "TOO_MANY_REQUESTS"
                        /\ response'.method = m
                        /\ calls' = calls]_vars

\* only denied calls were made, all on guarded connections, and the last one
\* was rejected for quota
C10_Witness ==
    /\ \E c \in Conns : handlers[c].established
    /\ \A c \in Conns : handlers[c].established => handlers[c].functionGuard.kind = "explicit"
    /\ apiCallCounter["getWorkspaces"] = 0
    /\ response.code = "TOO_MANY_REQUESTS"
    /\ response.method = "getToken"

(***************************************************************************)
(* Protocol and failure claims                                             *)
(***************************************************************************)
\* C11: a notification on any connection is answered INVALID_REQUEST, whatever
\* its method, actor and remaining quota; no handler method is invoked, and
\* the rate limiters and the call metric stay as they are
C11_NotificationRejected ==
    [][\A c \in Conns, m \in Methods : onNotification(c, m) =>
          /\ response'.code = "INVALID_REQUEST"
          /\ response'.steps = <<>>
          /\ limiters' = limiters
          /\ admitted' = admitted
          /\ apiCallCounter' = apiCallCounter
          /\ calls' = calls]_vars

\* a notification was rejected after the user's tier-one quota was used up
C11_Witness ==
    /\ response.code = "INVALID_REQUEST"
    /\ NoCallInFlight
    /\ \E i \in UserLimiters :
          Consumed(i, "rateLimiterOne") >= ConfiguredPoints("rateLimiterOne")

\* C12: what onRequest throws when the handler's method failed is the failure
\* itself when it is a ResponseError, and an internal-error rejection
\* otherwise
C12_HandlerFailureWrapped ==
    [][\A k \in Slots, e \in TargetFailures : onRequest_catch(k, e) =>
          response'.code = (IF IsResponseError(e) THEN e ELSE "INTERNAL_ERROR")]_vars

\* C13: when consume fails with an Error, onRequest throws that Error: the
\* call is not answered TOO_MANY_REQUESTS, is not admitted, and neither the
\* function guard nor the handler's method is invoked
C13_LimiterFailureRethrown ==
    [][\A c \in Conns, m \in Methods : onRequest_consumeError(c, m) =>
          /\ response'.code = "Error"
          /\ response'.method = m
          /\ response'.steps = <<"consume">>
          /\ calls' = calls
          /\ admitted' = admitted]_vars

\* a call has ended with the limiter's Error while the quota was not used up
C13_Witness ==
    /\ response.code = "Error"
    /\ response.steps = <<"consume">>
    /\ \E i \in UserLimiters :
          Consumed(i, "rateLimiterOne") < ConfiguredPoints("rateLimiterOne")

(***************************************************************************)
(* Guard selection                                                         *)
(***************************************************************************)
\* the upgrade requests of SpecGuards
Requests == {Request(u, g, rg) : u \in {"alice", NoUser}, g \in BOOLEAN, rg \in BOOLEAN}

\* C14: the handler of a new connection is bound to the resource guard the
\* request carries, whoever the actor is; with none carried, to the owner and
\* shared composite for a known actor and to a guard denying every resource
\* for an anonymous one; with no function guard carried, the function guard
\* grants every operation
C14_GuardSelection ==
    [][\A c \in Conns, request \in Requests : onConnection(c, request) =>
          /\ request.resourceGuard => handlers'[c].resourceGuard = "explicit"
          /\ (~request.resourceGuard /\ request.user # NoUser) =>
                /\ handlers'[c].resourceGuard = "CompositeResourceAccessGuard"
                /\ handlers'[c].user = request.user
          /\ (~request.resourceGuard /\ request.user = NoUser) =>
                \A r \in Resources : ~ResourceAccessGuard_canAccess(c, r)'
          /\ ~request.functionGuard =>
                \A m \in Methods : canAccess(handlers'[c].functionGuard, m)]_vars

\* an anonymous connection carries a resource guard, another has none, and a
\* call of getToken on a connection without function guard has returned
C14_Witness ==
    /\ \E c1, c2 \in Conns :
          /\ handlers[c1].established /\ handlers[c1].user = NoUser
          /\ handlers[c1].resourceGuard = "explicit"
          /\ handlers[c2].established /\ handlers[c2].user = NoUser
          /\ handlers[c2].resourceGuard = "denyAll"
          /\ \A r \in Resources : ~ResourceAccessGuard_canAccess(c2, r)
    /\ response.code = "OK" /\ response.method = "getToken"

(***************************************************************************)
(* Metrics and subscriptions                                               *)
(***************************************************************************)
\* C15: gitpod_api_connection counts the connections established so far and
\* gitpod_api_connection_closed the connections closed so far
C15_CountersMatchConnections ==
    /\ apiConnectionCounter = Cardinality({c \in Conns : handlers[c].established})
    /\ apiConnectionClosedCounter =
          Cardinality({c \in Conns : handlers[c].closeSignals > 0})

\* the subscriptions of listener l to event name whose disposer was not called
LiveSubscriptions(name, l) ==
    {i \in 1..Len(disposables[name]) :
        disposables[name][i].listener = l /\ disposables[name][i].called = 0}

\* C16: a listener is called once for each of its subscriptions whose own
\* disposer was not called, however often other disposers were called
C16_DisposerRemovesOwnSubscription ==
    \A n \in EventNames, l \in Listeners :
        Registrations(n, l) = Cardinality(LiveSubscriptions(n, l))

(***************************************************************************)
(* Windows, independence and reconnection                                  *)
(***************************************************************************)
\* the window length in seconds the configuration gives a limiter field
ConfiguredDuration(f) ==
    CASE f = "rateLimiterOne" -> NumberOr(env.RATE_LIMITER_ONE_DURATION, 60)
      [] f = "rateLimiterTwo" -> NumberOr(env.RATE_LIMITER_TWO_DURATION, 60)
      [] f = "rateLimiterThree" -> NumberOr(env.RATE_LIMITER_THREE_DURATION, 60)
      [] f = "rateLimiter" -> NumberOr(env.RATE_LIMITER_ANON_DURATION, 60)

\* ms left of the current window of user limiter i's field f (0: none)
WindowLeft(i, f) == limiters[i][f].storage[limiters[i].user].msBeforeNext

\* C17: a window of a user's tier lasts no longer than the configured
\* duration; the first call after it has ended is admitted and starts a
\* window with all N points but the one it takes; within any window no more
\* than N calls are admitted, and a call is rejected only when N were taken
\* in that window
C17_WindowRefill ==
    /\ [](\A i \in UserLimiters : \A f \in UserFields :
            /\ WindowLeft(i, f) <= ConfiguredDuration(f) * 1000
            /\ admitted[limiters[i].user][f].count <= ConfiguredPoints(f))
    /\ [][\A c \in Conns, m \in Methods : onRequest(c, m) =>
            LET i == handlers[c].rateLimiter
                f == UserRateLimiter_charge(limiters[i], m).field
            IN /\ admitted[limiters[i].user][f].msLeft = 0 =>
                    /\ calls' # calls
                    /\ Consumed(i, f)' = 1
                    /\ admitted'[limiters[i].user][f].count = 1
               /\ calls' = calls => Consumed(i, f) >= ConfiguredPoints(f)]_vars

\* a window in which one of two points stayed unused has ended, and in the
\* next window two calls were admitted and the third was rejected
C17_Witness ==
    /\ env = EnvSmall
    /\ apiCallCounter["getWorkspaces"] = 4
    /\ \E i \in UserLimiters : Consumed(i, "rateLimiterOne") = 3
    /\ admitted["alice"]["rateLimiterOne"].count = 2
    /\ response.code = "TOO_MANY_REQUESTS"
    /\ response.method = "getWorkspaces"

\* C18: a call of a user charges one point to the counter of that user and
\* of the tier of the method; the limiters of the connections of other users
\* and the user's other tiers stay as they are, and the call is rejected only
\* when that one counter had its N points taken
C18_CountersIndependent ==
    [][\A c \in Conns, m \in Methods : onRequest(c, m) =>
          LET i == handlers[c].rateLimiter
              f == UserRateLimiter_charge(limiters[i], m).field
          IN /\ Consumed(i, f)' = Consumed(i, f) + 1
             /\ \A g \in UserFields \ {f} : limiters'[i][g] = limiters[i][g]
             /\ \A d \in Conns :
                   (handlers[d].established /\ handlers[d].user # handlers[c].user) =>
                       limiters'[handlers[d].rateLimiter] = limiters[handlers[d].rateLimiter]
             /\ calls' = calls => Consumed(i, f) >= ConfiguredPoints(f)]_vars

\* alice was rejected on tier one; after that a call of hers on another tier
\* was admitted, and then a tier-one call of bob
C18_Witness ==
    /\ \E i \in UserLimiters :
          /\ limiters[i].user = "alice"
          /\ Consumed(i, "rateLimiterOne") > ConfiguredPoints("rateLimiterOne")
          /\ Consumed(i, "rateLimiterThree") > 0
    /\ admitted["alice"]["rateLimiterThree"].count > 0
    /\ \E k \in Slots :
          /\ calls[k].pc = "target"
          /\ calls[k].method = "getWorkspaces"
          /\ handlers[calls[k].conn].user = "bob"

\* C19: opening and closing connections leaves every rate limiter and the
\* cache of limiters as they are; a new connection of a user is bound to the
\* limiter cached for the user, so a call on it is rejected when the tier was
\* used up in the current window, on whichever connection, and no window
\* admits more than N calls of the user
C19_ReconnectKeepsCounters ==
    /\ [](\A f \in UserFields : admitted["alice"][f].count <= ConfiguredPoints(f))
    /\ [][\A c \in Conns :
            /\ (onDidCloseConnection(c) \/ onConnection(c, Request("alice", FALSE, FALSE))) =>
                  /\ \A i \in 1..Len(limiters) : limiters'[i] = limiters[i]
                  /\ \A u \in Users : instances[u] # 0 => instances'[u] = instances[u]
            /\ (onConnection(c, Request("alice", FALSE, FALSE)) /\ instances["alice"] # 0) =>
                  handlers'[c].rateLimiter = instances["alice"]
            /\ (/\ onRequest(c, "getWorkspaces")
                /\ Consumed(handlers[c].rateLimiter, "rateLimiterOne")
                      >= ConfiguredPoints("rateLimiterOne")) =>
                  /\ response'.code = "TOO_MANY_REQUESTS"
                  /\ calls' = calls]_vars

\* the first connection took one of two points and was closed; the second
\* connection, opened after that (it is in the live set) in the same window,
\* had one call admitted and the next one rejected
C19_Witness ==
    /\ env = EnvSmall
    /\ handlers[1].closeSignals > 0
    /\ handlers[2].established /\ handlers[2].closeSignals = 0
    /\ servers = <<2>>
    /\ apiCallCounter["getWorkspaces"] = 3
    /\ \E i \in UserLimiters : Consumed(i, "rateLimiterOne") = 3
    /\ \E k \in Slots : calls[k].pc # "idle" /\ calls[k].conn = 2
    /\ \A k \in Slots : calls[k].pc # "idle" => calls[k].conn = 2
    /\ response.code = "TOO_MANY_REQUESTS"

(***************************************************************************)
(* Lifecycle ordering                                                      *)
(***************************************************************************)
\* C20: the created event of a connection is emitted once, when its handler
\* is initialized and in the live set, and each listener is called with it
\* once per registration at that moment; a closed event is emitted only for a
\* handler announced by a created event, with the handler of the connection
\* that got the close signal, when that handler is disposed and out of the
\* live set
C20_LifecycleOrdering ==
    /\ [](\A c \in Conns :
            LET created == observed[EVENT_CONNECTION_CREATED][c]
                closed == observed[EVENT_CONNECTION_CLOSED][c]
            IN /\ created.emits = (IF handlers[c].established THEN 1 ELSE 0)
               /\ created.emits = 1 =>
                     /\ created.initialized /\ created.registered
                     /\ created.counted /\ ~created.disposed
               /\ closed.emits = handlers[c].closeSignals
               /\ closed.emits > 0 =>
                     /\ created.emits = 1
                     /\ closed.disposed /\ ~closed.registered
               /\ \A l \in Listeners :
                     delivered[l][EVENT_CONNECTION_CLOSED][c] > 0 =>
                         handlers[c].closeSignals > 0)
    /\ [][\A c \in Conns, l \in Listeners :
            delivered'[l][EVENT_CONNECTION_CREATED][c]
                    # delivered[l][EVENT_CONNECTION_CREATED][c] =>
                /\ onConnection(c, Request("alice", FALSE, FALSE))
                /\ delivered'[l][EVENT_CONNECTION_CREATED][c] =
                      Registrations(EVENT_CONNECTION_CREATED, l)]_vars

\* a listener of both events was called once for the creation of the second
\* connection, which it found counted, and once for each of its two close
\* signals
C20_Witness ==
    \E c \in Conns :
        /\ c = 2
        /\ observed[EVENT_CONNECTION_CREATED][c].counted
        /\ observed[EVENT_CONNECTION_CLOSED][c].emits = 2
        /\ delivered[1][EVENT_CONNECTION_CREATED][c] = 1
        /\ delivered[1][EVENT_CONNECTION_CLOSED][c] = 2
====
